---- MODULE Spec2Model ----
(***************************************************************************)
(* A model of transcribe.py: the caption parser (parse_srt), the clock     *)
(* formatter (_format_time), the document renderer (generate_markdown),    *)
(* the worker thread of transcribe_audio and the overwrite prompt of main. *)
(*                                                                         *)
(* Strings are sequences of one-character strings, so that strip, split,   *)
(* join and int() are computed character by character as Python does.     *)
(* Times are Python floats with at most three decimals; the model keeps    *)
(* them as whole milliseconds (1.5 s is 1500) and computes with them       *)
(* exactly. Binary floating point agrees with that wherever two times      *)
(* differ from the compared value by a millisecond or more, and on the      *)
(* times that are exact in binary (whole and half seconds, as here); the    *)
(* rounding of a difference such as 1.503 - 0.003 is not modelled.          *)
(***************************************************************************)
EXTENDS Integers, Sequences, FiniteSets, TLC

VARIABLES
    \* parse_srt
    src,            \* the caption blocks the content was assembled from
    content,        \* parse_srt's argument
    blocks,         \* content.strip().split('\n\n')
    bi,             \* index of the block the for loop is at
    segments,       \* the list parse_srt builds
    ppc,            \* "start" | "loop" | "done" | "raised"
    \* format_timestamp and format_duration
    ft_seconds,     \* the argument, in ms
    ft_stamp,       \* what format_timestamp returned (<<>>: not called yet)
    ft_duration,    \* what format_duration returned (<<>>: not called yet)
    \* generate_markdown
    video_info,         \* the metadata; a key may be missing
    today,              \* datetime.now().strftime('%Y-%m-%d')
    transcription,      \* the segments of the transcription argument
    include_timestamps,
    gi,                 \* index of the segment the for loop is at
    lines,              \* the output lines
    paragraphs,         \* closed paragraphs, each already joined
    current_para,       \* texts of the paragraph being built
    last_end,           \* end of the last segment appended, in ms
    gpc,                \* "start" | "stamps" | "group" | "emit" | "join" | "done"
    markdown,           \* the returned document
    \* transcribe_audio
    tpc,            \* where the main thread is
    wpc,            \* where the worker thread (run_transcription) is
    proc,           \* the external process: "none" | "running" | "exited" | "spawn_failed"
    returncode,     \* the exit status of the process once it exited
    result,         \* the nonlocal result: <<>> for None, else <<returncode>>
    srt_file,       \* the .srt file in the output directory: "absent" | "partial" | "complete"
    pos,            \* the marquee offset
    observed,       \* what the main thread read, with the state of the process then
    \* main
    mpc,            \* where main is
    existing,       \* the paths that exist: 1 is the chosen output path, k >= 2 is '<stem> k<ext>'
    force,          \* args.force
    choice,         \* the normalised answer to the prompt
    n,              \* the number the rename loop is at
    output_path,
    probed,         \* the numbers the rename loop found taken
    prompted,       \* whether the overwrite prompt was shown
    written         \* the paths main wrote the document to

parseVars == <<src, content, blocks, bi, segments, ppc>>
formatVars == <<ft_seconds, ft_stamp, ft_duration>>
gmVars == <<video_info, today, transcription, include_timestamps, gi, lines,
            paragraphs, current_para, last_end, gpc, markdown>>
taVars == <<tpc, wpc, proc, returncode, result, srt_file, pos, observed>>
mainVars == <<mpc, existing, force, choice, n, output_path, probed, prompted, written>>
vars == <<parseVars, formatVars, gmVars, taVars, mainVars>>
exceptParse == <<formatVars, gmVars, taVars, mainVars>>
exceptFormat == <<parseVars, gmVars, taVars, mainVars>>
exceptMarkdown == <<parseVars, formatVars, taVars, mainVars>>
exceptTranscribe == <<parseVars, formatVars, gmVars, mainVars>>
exceptMain == <<parseVars, formatVars, gmVars, taVars>>

-----------------------------------------------------------------------------
(* Python's str and int builtins, as the code uses them.                    *)

Whitespace == {" ", "\n", "\t"}
DigitChars == <<"0", "1", "2", "3", "4", "5", "6", "7", "8", "9">>
Digits == {DigitChars[i] : i \in 1..10}
DigitValue(c) == (CHOOSE i \in 1..10 : DigitChars[i] = c) - 1

MinOf(S) == CHOOSE x \in S : \A y \in S : x <= y

\* str.strip(): leading and trailing whitespace removed.
Strip(s) ==
    IF \A i \in 1..Len(s) : s[i] \in Whitespace THEN <<>>
    ELSE LET first == CHOOSE i \in 1..Len(s) :
                          s[i] \notin Whitespace /\ \A j \in 1..(i - 1) : s[j] \in Whitespace
             last == CHOOSE i \in 1..Len(s) :
                         s[i] \notin Whitespace /\ \A j \in (i + 1)..Len(s) : s[j] \in Whitespace
         IN  SubSeq(s, first, last)

\* str.split(sep): the pieces between the non-overlapping occurrences of sep,
\* found left to right; always at least one piece.
RECURSIVE SplitOn(_, _)
SplitOn(s, sep) ==
    LET k == Len(sep)
        hits == {i \in 1..(Len(s) - k + 1) : \A d \in 1..k : s[i + d - 1] = sep[d]}
    IN  IF hits = {} THEN <<s>>
        ELSE LET i == MinOf(hits)
             IN  <<SubSeq(s, 1, i - 1)>> \o SplitOn(SubSeq(s, i + k, Len(s)), sep)

\* sep.join(parts)
RECURSIVE JoinWith(_, _)
JoinWith(parts, sep) ==
    IF parts = <<>> THEN <<>>
    ELSE IF Len(parts) = 1 THEN parts[1]
    ELSE parts[1] \o sep \o JoinWith(Tail(parts), sep)

\* int(s): surrounding whitespace is dropped, one sign is allowed, and the rest
\* must be a non-empty run of digits (of ASCII digits here: the model's text has
\* no underscore and no other digits), of at most IntMaxStrDigits digits.
\* sig is the number of significant digits.
IntMaxStrDigits == 4300

SigDigits(body) ==
    IF \A i \in 1..Len(body) : body[i] = "0" THEN 0
    ELSE Len(body) + 1 - (CHOOSE i \in 1..Len(body) :
                              body[i] # "0" /\ \A j \in 1..(i - 1) : body[j] = "0")

IntOfDigits(neg, body) ==
    IF body # <<>> /\ Len(body) <= IntMaxStrDigits
       /\ \A i \in 1..Len(body) : body[i] \in Digits
    THEN [valid |-> TRUE, neg |-> neg, sig |-> SigDigits(body), digits |-> body]
    ELSE [valid |-> FALSE, neg |-> FALSE, sig |-> 0, digits |-> <<>>]

IntOfStripped(t) ==
    IF t # <<>> /\ t[1] \in {"+", "-"}
    THEN IntOfDigits(t[1] = "-", Tail(t))
    ELSE IntOfDigits(FALSE, t)

IntOf(s) == IntOfStripped(Strip(s))

RECURSIVE DigitsValue(_)
DigitsValue(ds) ==
    IF ds = <<>> THEN 0
    ELSE 10 * DigitsValue(SubSeq(ds, 1, Len(ds) - 1)) + DigitValue(ds[Len(ds)])

IntValue(r) == IF r.neg THEN 0 - DigitsValue(r.digits) ELSE DigitsValue(r.digits)

\* A Python float holds less than 1.8e308: an int of 313 or more significant
\* digits converts to no float, neither itself nor divided by 1000, and the
\* arithmetic of line 112 raises OverflowError. The fields of this model's
\* captions have at most nine digits, or more than FloatOverflowDigits in one
\* field of a timestamp.
FloatOverflowDigits == 313

-----------------------------------------------------------------------------
(* parse_srt_timestamp and parse_srt                                        *)

Comma == <<",">>
Colon == <<":">>
Arrow == <<" ", "-", "-", ">", " ">>
NL == <<"\n">>
BlankLine == <<"\n", "\n">>

TsResult(err, ms) == [err |-> err, ms |-> ms]

\* Line 112 on ints that fit a float: int(h) * 3600 + int(m) * 60 + int(s) +
\* int(ms_part) / 1000, in milliseconds.
TimestampSecondsWrongMinutes(h, m, s, ms) == (h * 3600 + m * 6 + s) * 1000 + ms

TimestampSeconds(h, m, s, ms) == (h * 3600 + m * 60 + s) * 1000 + ms

\* The outcome of parse_srt_timestamp: the seconds (in ms), or the exception.
\* The unpacking of each split and every int() run, and raise ValueError,
\* before the float arithmetic can raise OverflowError.
TimestampOfInts(h, m, s, ms) ==
    IF ~(h.valid /\ m.valid /\ s.valid /\ ms.valid) THEN TsResult("ValueError", 0)
    ELSE IF \E f \in {h, m, s, ms} : f.sig >= FloatOverflowDigits
    THEN TsResult("OverflowError", 0)
    ELSE TsResult("none",
                  TimestampSeconds(IntValue(h), IntValue(m), IntValue(s), IntValue(ms)))

\* h, m, s = time_part.split(':')
TimestampOfFields(hms, ms_part) ==
    IF Len(hms) # 3 THEN TsResult("ValueError", 0)
    ELSE TimestampOfInts(IntOf(hms[1]), IntOf(hms[2]), IntOf(hms[3]), IntOf(ms_part))

\* time_part, ms_part = timestamp.split(',')
TimestampOfParts(parts) ==
    IF Len(parts) # 2 THEN TsResult("ValueError", 0)
    ELSE TimestampOfFields(SplitOn(parts[1], Colon), parts[2])

parse_srt_timestamp(timestamp) == TimestampOfParts(SplitOn(timestamp, Comma))

Segment(start, end, text) == [start |-> start, end |-> end, text |-> text]
Outcome(kind, seg) == [kind |-> kind, seg |-> seg]
NoSegment == Segment(0, 0, <<>>)

\* One pass of the loop body (lines 121-139) over a block: "short" (fewer than
\* 3 lines), "parsed" with the segment, or the exception the try body raises.
\* lines 130-131: end is parsed only when start was; then the text is joined
OutcomeOfEnd(start, end, block_lines) ==
    IF end.err # "none" THEN Outcome(end.err, NoSegment)
    ELSE Outcome("parsed",
                 Segment(start.ms, end.ms,
                         Strip(JoinWith(SubSeq(block_lines, 3, Len(block_lines)), <<" ">>))))

\* line 129
OutcomeOfStart(start, sides, block_lines) ==
    IF start.err # "none" THEN Outcome(start.err, NoSegment)
    ELSE OutcomeOfEnd(start, parse_srt_timestamp(Strip(sides[2])), block_lines)

\* line 128: start_ts, end_ts = timestamp_line.split(' --> ')
OutcomeOfSides(sides, block_lines) ==
    IF Len(sides) # 2 THEN Outcome("ValueError", NoSegment)
    ELSE OutcomeOfStart(parse_srt_timestamp(Strip(sides[1])), sides, block_lines)

\* line 122
OutcomeOfLines(block_lines) ==
    IF Len(block_lines) < 3 THEN Outcome("short", NoSegment)
    ELSE OutcomeOfSides(SplitOn(block_lines[2], Arrow), block_lines)

\* line 121: lines = block.strip().split('\n')
BlockOutcome(block) == OutcomeOfLines(SplitOn(Strip(block), NL))

\* The exceptions the except clause of line 138 catches.
CaughtErrors == {"ValueError", "IndexError"}

-----------------------------------------------------------------------------
(* Caption text: the blocks parse_srt is run on.                            *)

MaxBlocks == 3
HugeDigits == 320

Pad2(v) == <<DigitChars[(v \div 10) + 1], DigitChars[(v % 10) + 1]>>
Pad3(v) == <<DigitChars[(v \div 100) + 1]>> \o Pad2(v % 100)
Clock(h, m, s, ms) == [h |-> h, m |-> m, s |-> s, ms |-> ms]
ClockText(t) == Pad2(t.h) \o Colon \o Pad2(t.m) \o Colon \o Pad2(t.s) \o Comma \o Pad3(t.ms)

\* kind "wf": index line, 'HH:MM:SS,mmm --> HH:MM:SS,mmm', trimmed text lines.
\* kind "bad": fewer than 3 lines, no ' --> ' pair, or a non-numeric field.
\* kind "other": any other text, given literally.
CaptionBlock(kind, idx, st, en, text_lines, raw) ==
    [kind |-> kind, idx |-> idx, st |-> st, en |-> en, lines |-> text_lines, raw |-> raw]
WellFormed(idx, st, en, text_lines) == CaptionBlock("wf", idx, st, en, text_lines, <<>>)
Literal(kind, raw) == CaptionBlock(kind, 0, Clock(0, 0, 0, 0), Clock(0, 0, 0, 0), <<>>, raw)

RenderBlock(d) ==
    IF d.kind = "wf"
    THEN <<DigitChars[d.idx + 1]>> \o NL \o ClockText(d.st) \o Arrow \o ClockText(d.en)
         \o NL \o JoinWith(d.lines, NL)
    ELSE d.raw

Hello == <<"H", "e", "l", "l", "o">>
World == <<"w", "o", "r", "l", "d">>
T0 == ClockText(Clock(0, 0, 3, 0))
T1 == ClockText(Clock(0, 0, 4, 0))

BlockTwoLines == Literal("bad", <<"4">> \o NL \o T0 \o Arrow \o T1)
BlockNoArrow == Literal("bad", <<"5">> \o NL \o T0 \o <<" ">> \o T1 \o NL \o <<"x">>)
BlockNonNumeric ==
    Literal("bad", <<"6">> \o NL \o <<"0", "0", ":", "0", "x", ":", "0", "3", ",", "0", "0", "0">>
                   \o Arrow \o T1 \o NL \o <<"x">>)
\* extra blanks around the arrow and the text, and a blank line too many before
BlockLoose ==
    Literal("other", NL \o <<"7">> \o NL \o T0 \o <<" ">> \o Arrow \o <<" ">> \o T1 \o <<" ">>
                     \o NL \o <<" ", "h", "i", " ">> \o NL \o <<" ", "y", "o", " ">> \o NL)
\* a signed field: int('-1') is -1
BlockSigned ==
    Literal("other", <<"8">> \o NL \o <<"-", "1", ":", "0", "0", ":", "0", "0", ",", "0", "0", "0">>
                     \o Arrow \o T1 \o NL \o <<"x">>)
\* a milliseconds field of HugeDigits digits
BlockHuge ==
    Literal("other", <<"9">> \o NL \o <<"0", "0", ":", "0", "0", ":", "0", "0", ",">>
                     \o [i \in 1..HugeDigits |-> "9"] \o Arrow \o T1 \o NL \o <<"x">>)

BlockTemplates ==
    { WellFormed(1, Clock(0, 0, 0, 0), Clock(0, 0, 2, 0), <<Hello>>),
      WellFormed(2, Clock(0, 1, 5, 250), Clock(0, 1, 7, 500), <<World, <<"a", " ", "b">>>>),
      WellFormed(3, Clock(1, 1, 1, 999), Clock(0, 0, 1, 0), <<<<"z">>>>),
      BlockTwoLines, BlockNoArrow, BlockNonNumeric, BlockLoose, BlockSigned, BlockHuge }

CaptionInputs == UNION {[1..len -> BlockTemplates] : len \in 0..MaxBlocks}
ContentOf(ds) == JoinWith([i \in 1..Len(ds) |-> RenderBlock(ds[i])], BlankLine)

IdleParse ==
    /\ src = <<>>
    /\ content = <<>>
    /\ blocks = <<>>
    /\ bi = 0
    /\ segments = <<>>
    /\ ppc = "idle"

IdleFormat ==
    /\ ft_seconds = 0
    /\ ft_stamp = <<>>
    /\ ft_duration = <<>>

IdleMarkdown ==
    /\ video_info = [title |-> <<>>, duration |-> 0, keys |-> {}]
    /\ today = <<>>
    /\ transcription = <<>>
    /\ include_timestamps = FALSE
    /\ gi = 0
    /\ lines = <<>>
    /\ paragraphs = <<>>
    /\ current_para = <<>>
    /\ last_end = 0
    /\ gpc = "idle"
    /\ markdown = <<>>

IdleTranscribe ==
    /\ tpc = "idle"
    /\ wpc = "unstarted"
    /\ proc = "none"
    /\ returncode = 0
    /\ result = <<>>
    /\ srt_file = "absent"
    /\ pos = 0
    /\ observed = {}

IdleMain ==
    /\ mpc = "idle"
    /\ existing = {}
    /\ force = FALSE
    /\ choice = <<>>
    /\ n = 0
    /\ output_path = 0
    /\ probed = {}
    /\ prompted = FALSE
    /\ written = {}

-----------------------------------------------------------------------------
(* parse_srt as a loop over the blocks                                      *)

InitParse ==
    /\ src \in CaptionInputs
    /\ \E tail \in {<<>>, NL} : content = ContentOf(src) \o tail
    /\ blocks = <<>>
    /\ bi = 0
    /\ segments = <<>>
    /\ ppc = "start"
    /\ IdleFormat
    /\ IdleMarkdown
    /\ IdleTranscribe
    /\ IdleMain

\* lines 117-118
ParseSplit ==
    /\ ppc = "start"
    /\ blocks' = SplitOn(Strip(content), BlankLine)
    /\ bi' = 1
    /\ segments' = <<>>
    /\ ppc' = "loop"
    /\ UNCHANGED <<src, content>>
    /\ UNCHANGED exceptParse

AtBlock == ppc = "loop" /\ bi <= Len(blocks)

\* line 122 false: the block is passed over
BlockTooShort ==
    /\ AtBlock
    /\ BlockOutcome(blocks[bi]).kind = "short"
    /\ bi' = bi + 1
    /\ UNCHANGED <<src, content, blocks, segments, ppc>>
    /\ UNCHANGED exceptParse

\* lines 132-137: if text: segments.append(...)
AppendIfText(segs, seg) == IF seg.text # <<>> THEN Append(segs, seg) ELSE segs

\* lines 127-137: the try body ran to its end
BlockParsed ==
    /\ AtBlock
    /\ BlockOutcome(blocks[bi]).kind = "parsed"
    /\ segments' = AppendIfText(segments, BlockOutcome(blocks[bi]).seg)
    /\ bi' = bi + 1
    /\ UNCHANGED <<src, content, blocks, ppc>>
    /\ UNCHANGED exceptParse

\* lines 138-139: except (ValueError, IndexError): continue
BlockSkipped ==
    /\ AtBlock
    /\ BlockOutcome(blocks[bi]).kind \in CaughtErrors
    /\ bi' = bi + 1
    /\ UNCHANGED <<src, content, blocks, segments, ppc>>
    /\ UNCHANGED exceptParse

\* any other exception leaves parse_srt
BlockRaises ==
    /\ AtBlock
    /\ BlockOutcome(blocks[bi]).kind \notin {"short", "parsed"} \cup CaughtErrors
    /\ ppc' = "raised"
    /\ UNCHANGED <<src, content, blocks, bi, segments>>
    /\ UNCHANGED exceptParse

\* line 141
ParseReturn ==
    /\ ppc = "loop"
    /\ bi > Len(blocks)
    /\ ppc' = "done"
    /\ UNCHANGED <<src, content, blocks, bi, segments>>
    /\ UNCHANGED exceptParse

NextParse ==
    \/ ParseSplit
    \/ BlockTooShort
    \/ BlockParsed
    \/ BlockSkipped
    \/ BlockRaises
    \/ ParseReturn

SpecParse == InitParse /\ [][NextParse]_vars

\* C2: content made of N well-formed blocks separated by a blank line parses to
\* exactly N segments, the i-th from the i-th block, start and end being
\* H*3600 + M*60 + S + ms/1000 of each side and text the text lines joined by
\* single spaces, in block order whatever the times.
ClockMs(t) == t.h * 3600000 + t.m * 60000 + t.s * 1000 + t.ms
ExpectedSegment(d) == Segment(ClockMs(d.st), ClockMs(d.en), JoinWith(d.lines, <<" ">>))
IsWellFormed(d) == d.kind = "wf"
AllWellFormed(ds) == \A i \in 1..Len(ds) : IsWellFormed(ds[i])
ExpectedSegments(ds) == [i \in 1..Len(ds) |-> ExpectedSegment(ds[i])]

C2_WellFormedBlocksParse ==
    (ppc = "done" /\ AllWellFormed(src)) => segments = ExpectedSegments(src)

C2_Witness ==
    /\ ppc = "done"
    /\ Len(src) = 3
    /\ AllWellFormed(src)
    /\ Len(segments) = 3
    /\ segments[2].start < segments[1].start
    /\ segments[1].start = 65250
    /\ segments[1].text = <<"w", "o", "r", "l", "d", " ", "a", " ", "b">>

\* C1: parse_srt never raises; a block with fewer than 3 lines, without a
\* ' --> ' pair or with a non-numeric field contributes no segment, and the
\* well-formed blocks around it contribute theirs.
Classified(ds) == \A i \in 1..Len(ds) : ds[i].kind \in {"wf", "bad"}

C1_ParseNeverRaises ==
    /\ ppc # "raised"
    /\ (ppc = "done" /\ Classified(src)) =>
           segments = ExpectedSegments(SelectSeq(src, IsWellFormed))

\* C5: every segment parse_srt emits has start >= 0 and a non-empty text without
\* leading or trailing whitespace.
C5_SegmentsFitDataModel ==
    \A i \in 1..Len(segments) :
        /\ segments[i].start >= 0
        /\ segments[i].text # <<>>
        /\ Strip(segments[i].text) = segments[i].text

-----------------------------------------------------------------------------
(* _format_time, format_timestamp, format_duration                          *)

MaxFormatSeconds == 3700
\* durations of several hours, for the unpadded leading field
LongDurations == {7322, 36000, 43199, 360061}

\* str(n) of an int n >= 0
RECURSIVE DecimalOf(_)
DecimalOf(v) ==
    IF v < 10 THEN <<DigitChars[v + 1]>>
    ELSE DecimalOf(v \div 10) \o <<DigitChars[(v % 10) + 1]>>

\* f"{n:02d}" of an int n >= 0
ZeroPad2(v) == IF v < 10 THEN <<"0">> \o DecimalOf(v) ELSE DecimalOf(v)

\* int(seconds): the fraction is cut off, towards zero
TruncSeconds(ms) == IF ms >= 0 THEN ms \div 1000 ELSE 0 - ((0 - ms) \div 1000)

\* line 34; Python's // and % round down, as \div and % do
TimeStringAlwaysHours(h, m, s) ==
    IF h >= 0 THEN DecimalOf(h) \o Colon \o ZeroPad2(m) \o Colon \o ZeroPad2(s)
    ELSE DecimalOf(m) \o Colon \o ZeroPad2(s)

TimeString(h, m, s) ==
    IF h > 0 THEN DecimalOf(h) \o Colon \o ZeroPad2(m) \o Colon \o ZeroPad2(s)
    ELSE DecimalOf(m) \o Colon \o ZeroPad2(s)

\* line 33
TimeOfTotal(total) == TimeString(total \div 3600, (total % 3600) \div 60, total % 60)

\* line 35
Bracketed(time_str, brackets) ==
    IF brackets THEN <<"[">> \o time_str \o <<"]">> ELSE time_str

_format_time(seconds, brackets) == Bracketed(TimeOfTotal(TruncSeconds(seconds)), brackets)
format_timestamp(seconds) == _format_time(seconds, TRUE)
format_duration(seconds) == _format_time(seconds, FALSE)

InitFormat ==
    /\ \E whole \in (0..MaxFormatSeconds) \cup LongDurations, frac \in {0, 999} :
           ft_seconds = whole * 1000 + frac
    /\ ft_stamp = <<>>
    /\ ft_duration = <<>>
    /\ IdleParse
    /\ IdleMarkdown
    /\ IdleTranscribe
    /\ IdleMain

CallFormatTimestamp ==
    /\ ft_stamp = <<>>
    /\ ft_stamp' = format_timestamp(ft_seconds)
    /\ UNCHANGED <<ft_seconds, ft_duration>>
    /\ UNCHANGED exceptFormat

CallFormatDuration ==
    /\ ft_duration = <<>>
    /\ ft_duration' = format_duration(ft_seconds)
    /\ UNCHANGED <<ft_seconds, ft_stamp>>
    /\ UNCHANGED exceptFormat

NextFormat ==
    \/ CallFormatTimestamp
    \/ CallFormatDuration

SpecFormat == InitFormat /\ [][NextFormat]_vars

\* C6: with total the whole seconds, h = total div 3600, m = (total mod 3600)
\* div 60, s = total mod 60 satisfy 0 <= m,s <= 59 and h*3600 + m*60 + s = total;
\* the text is H:MM:SS exactly when h > 0 and M:SS otherwise, the leading field
\* unpadded and the others two digits; format_timestamp is format_duration in
\* brackets; 65 -> [1:05], 3661 -> [1:01:01], 59 -> 0:59.
RendersClock(text, h, m, s) ==
    IF h > 0
    THEN /\ Len(SplitOn(text, Colon)) = 3
         /\ SplitOn(text, Colon)[1][1] # "0"
         /\ DigitsValue(SplitOn(text, Colon)[1]) = h
         /\ SplitOn(text, Colon)[2] = Pad2(m)
         /\ SplitOn(text, Colon)[3] = Pad2(s)
    ELSE /\ Len(SplitOn(text, Colon)) = 2
         /\ Len(SplitOn(text, Colon)[1]) = (IF m < 10 THEN 1 ELSE 2)
         /\ DigitsValue(SplitOn(text, Colon)[1]) = m
         /\ SplitOn(text, Colon)[2] = Pad2(s)

DecomposesAndRenders(text, total, h, m, s) ==
    /\ m \in 0..59
    /\ s \in 0..59
    /\ h * 3600 + m * 60 + s = total
    /\ RendersClock(text, h, m, s)

C6_FormatTime ==
    /\ ft_duration # <<>> =>
           DecomposesAndRenders(ft_duration, ft_seconds \div 1000,
                                (ft_seconds \div 1000) \div 3600,
                                ((ft_seconds \div 1000) % 3600) \div 60,
                                (ft_seconds \div 1000) % 60)
    /\ (ft_duration # <<>> /\ ft_stamp # <<>>) =>
           ft_stamp = <<"[">> \o ft_duration \o <<"]">>
    /\ (ft_stamp # <<>> /\ ft_seconds \div 1000 = 65) =>
           ft_stamp = <<"[", "1", ":", "0", "5", "]">>
    /\ (ft_stamp # <<>> /\ ft_seconds \div 1000 = 3661) =>
           ft_stamp = <<"[", "1", ":", "0", "1", ":", "0", "1", "]">>
    /\ (ft_duration # <<>> /\ ft_seconds \div 1000 = 59) =>
           ft_duration = <<"0", ":", "5", "9">>

C6_Witness ==
    /\ ft_seconds = 3661999
    /\ ft_stamp = <<"[", "1", ":", "0", "1", ":", "0", "1", "]">>
    /\ ft_duration = <<"1", ":", "0", "1", ":", "0", "1">>

-----------------------------------------------------------------------------
(* generate_markdown                                                        *)

MaxSegments == 3

\* PARAGRAPH_GAP_SECONDS = 1.5, in ms
PARAGRAPH_GAP_MS == 1500

SegmentInputs ==
    { Segment(0, 2000, Hello),
      Segment(2000, 4000, World),
      Segment(5500, 6000, <<" ", "c", " ">>),
      Segment(7501, 8000, <<"d">>),
      Segment(6000, 1000, <<"e">>),
      Segment(9000, 9500, <<" ", " ">>),
      Segment(3000, 3100, <<>>) }

Transcriptions == UNION {[1..len -> SegmentInputs] : len \in 0..MaxSegments}

VideoInfos ==
    { [title |-> <<"T">>, duration |-> 3661000, keys |-> {"title", "duration"}],
      [title |-> <<>>, duration |-> 0, keys |-> {}] }

\* lines 204-205: video_info.get(key, default)
TitleOf(info) == IF "title" \in info.keys THEN info.title ELSE <<"Untitled Video">>
DurationOf(info) == IF "duration" \in info.keys THEN info.duration ELSE 0

\* lines 207-218
HeaderLines(title, duration, url, date) ==
    << <<"# Transcript: ">> \o title,
       <<>>,
       <<"**Source:** ">> \o url,
       <<"**Duration:** ">> \o format_duration(duration),
       <<"**Transcribed:** ">> \o date,
       <<>>,
       <<"---">>,
       <<>>,
       <<"## Transcript">>,
       <<>> >>

Url == <<"https://youtu.be/x">>

InitMarkdown ==
    /\ video_info \in VideoInfos
    /\ today = <<"2024-01-31">>
    /\ transcription \in Transcriptions
    /\ include_timestamps \in BOOLEAN
    /\ gi = 0
    /\ lines = <<>>
    /\ paragraphs = <<>>
    /\ current_para = <<>>
    /\ last_end = 0
    /\ gpc = "start"
    /\ markdown = <<>>
    /\ IdleParse
    /\ IdleFormat
    /\ IdleTranscribe
    /\ IdleMain

\* lines 204-220, and 233-235 when the paragraphs are to be grouped
GmStart ==
    /\ gpc = "start"
    /\ lines' = HeaderLines(TitleOf(video_info), DurationOf(video_info), Url, today)
    /\ gi' = 1
    /\ gpc' = IF include_timestamps THEN "stamps" ELSE "group"
    /\ paragraphs' = <<>>
    /\ current_para' = <<>>
    /\ last_end' = 0
    /\ UNCHANGED <<video_info, today, transcription, include_timestamps, markdown>>
    /\ UNCHANGED exceptMarkdown

AtSegment(pc) == gpc = pc /\ gi <= Len(transcription)

\* text = segment.get("text", "").strip()
TextOf(segment) == Strip(segment.text)

\* lines 228-229
StampLineOfEnd(segment) == format_timestamp(segment.end) \o <<" ">> \o TextOf(segment)

StampLine(segment) == format_timestamp(segment.start) \o <<" ">> \o TextOf(segment)

\* lines 224-230, text not empty
StampEmit ==
    /\ AtSegment("stamps")
    /\ TextOf(transcription[gi]) # <<>>
    /\ lines' = lines \o <<StampLine(transcription[gi]), <<>>>>
    /\ gi' = gi + 1
    /\ UNCHANGED <<video_info, today, transcription, include_timestamps, paragraphs,
                   current_para, last_end, gpc, markdown>>
    /\ UNCHANGED exceptMarkdown

\* lines 224-227, text empty
StampSkip ==
    /\ AtSegment("stamps")
    /\ TextOf(transcription[gi]) = <<>>
    /\ gi' = gi + 1
    /\ UNCHANGED <<video_info, today, transcription, include_timestamps, lines,
                   paragraphs, current_para, last_end, gpc, markdown>>
    /\ UNCHANGED exceptMarkdown

\* the for loop of line 224 is over
StampsDone ==
    /\ gpc = "stamps"
    /\ gi > Len(transcription)
    /\ gpc' = "join"
    /\ UNCHANGED <<video_info, today, transcription, include_timestamps, gi, lines,
                   paragraphs, current_para, last_end, markdown>>
    /\ UNCHANGED exceptMarkdown

\* line 245
GapExceedsOrEquals(buffer, start, previous_end) ==
    buffer # <<>> /\ (start - previous_end) >= PARAGRAPH_GAP_MS

GapExceeds(buffer, start, previous_end) ==
    buffer # <<>> /\ (start - previous_end) > PARAGRAPH_GAP_MS

\* line 246
ClosedParagraphsLost(closed, buffer) == closed

ClosedParagraphs(closed, buffer) == Append(closed, JoinWith(buffer, <<" ">>))

\* lines 241-242: if not text: continue
GroupSkip ==
    /\ AtSegment("group")
    /\ TextOf(transcription[gi]) = <<>>
    /\ gi' = gi + 1
    /\ UNCHANGED <<video_info, today, transcription, include_timestamps, lines,
                   paragraphs, current_para, last_end, gpc, markdown>>
    /\ UNCHANGED exceptMarkdown

\* lines 245-250, the gap exceeds the threshold: the paragraph is closed and the
\* segment opens the next one
GroupBreak ==
    /\ AtSegment("group")
    /\ TextOf(transcription[gi]) # <<>>
    /\ GapExceeds(current_para, transcription[gi].start, last_end)
    /\ paragraphs' = ClosedParagraphs(paragraphs, current_para)
    /\ current_para' = <<TextOf(transcription[gi])>>
    /\ last_end' = transcription[gi].end
    /\ gi' = gi + 1
    /\ UNCHANGED <<video_info, today, transcription, include_timestamps, lines, gpc,
                   markdown>>
    /\ UNCHANGED exceptMarkdown

\* lines 245, 249-250: the segment joins the current paragraph
GroupExtend ==
    /\ AtSegment("group")
    /\ TextOf(transcription[gi]) # <<>>
    /\ ~GapExceeds(current_para, transcription[gi].start, last_end)
    /\ current_para' = Append(current_para, TextOf(transcription[gi]))
    /\ last_end' = transcription[gi].end
    /\ gi' = gi + 1
    /\ UNCHANGED <<video_info, today, transcription, include_timestamps, lines,
                   paragraphs, gpc, markdown>>
    /\ UNCHANGED exceptMarkdown

\* lines 252-253
FlushedAlways(closed, buffer) == ClosedParagraphs(closed, buffer)

Flushed(closed, buffer) ==
    IF buffer # <<>> THEN ClosedParagraphs(closed, buffer) ELSE closed

GroupFlush ==
    /\ gpc = "group"
    /\ gi > Len(transcription)
    /\ paragraphs' = Flushed(paragraphs, current_para)
    /\ gpc' = "emit"
    /\ UNCHANGED <<video_info, today, transcription, include_timestamps, gi, lines,
                   current_para, last_end, markdown>>
    /\ UNCHANGED exceptMarkdown

\* lines 255-257
RECURSIVE ParagraphLines(_)
ParagraphLines(paras) ==
    IF paras = <<>> THEN <<>>
    ELSE <<paras[1], <<>>>> \o ParagraphLines(Tail(paras))

GroupEmit ==
    /\ gpc = "emit"
    /\ lines' = lines \o ParagraphLines(paragraphs)
    /\ gpc' = "join"
    /\ UNCHANGED <<video_info, today, transcription, include_timestamps, gi,
                   paragraphs, current_para, last_end, markdown>>
    /\ UNCHANGED exceptMarkdown

\* line 259
GmReturn ==
    /\ gpc = "join"
    /\ markdown' = JoinWith(lines, NL)
    /\ gpc' = "done"
    /\ UNCHANGED <<video_info, today, transcription, include_timestamps, gi, lines,
                   paragraphs, current_para, last_end>>
    /\ UNCHANGED exceptMarkdown

NextMarkdown ==
    \/ GmStart
    \/ StampEmit
    \/ StampSkip
    \/ StampsDone
    \/ GroupSkip
    \/ GroupBreak
    \/ GroupExtend
    \/ GroupFlush
    \/ GroupEmit
    \/ GmReturn

SpecMarkdown == InitMarkdown /\ [][NextMarkdown]_vars

\* The segments whose text is not empty once trimmed, in input order.
HasText(segment) == Strip(segment.text) # <<>>
NonEmpty(segs) == SelectSeq(segs, HasText)
TrimmedTexts(segs) == [k \in 1..Len(NonEmpty(segs)) |-> Strip(NonEmpty(segs)[k].text)]

\* C3: in paragraph mode a paragraph boundary lies between two consecutive
\* non-empty segments iff next.start - previous.end > 1.5 s, previous being the
\* immediately preceding non-empty segment; a gap of exactly 1.5 s does not
\* split, and the first segment opens no boundary.
ParagraphStarts(ne) ==
    {j \in 1..Len(ne) : j = 1 \/ ne[j].start - ne[j - 1].end > 1500}
NthStart(ne, k) ==
    CHOOSE a \in ParagraphStarts(ne) :
        Cardinality({b \in ParagraphStarts(ne) : b < a}) = k - 1
ParagraphEnd(ne, a) ==
    MinOf({j - 1 : j \in {b \in ParagraphStarts(ne) : b > a}} \cup {Len(ne)})
ParagraphFrom(ne, a) ==
    JoinWith([k \in 1..(ParagraphEnd(ne, a) - a + 1) |-> Strip(ne[a + k - 1].text)], <<" ">>)
ExpectedParagraphs(ne) ==
    [k \in 1..Cardinality(ParagraphStarts(ne)) |-> ParagraphFrom(ne, NthStart(ne, k))]

C3_WitnessTie ==
    /\ gpc = "done"
    /\ ~include_timestamps
    /\ transcription = <<Segment(2000, 4000, World), Segment(5500, 6000, <<" ", "c", " ">>),
                         Segment(6000, 1000, <<"e">>)>>
    /\ paragraphs = << <<"w", "o", "r", "l", "d", " ", "c", " ", "e">> >>

HeaderLength == 10
C4_TimestampLines ==
    (gpc \in {"join", "done"} /\ include_timestamps) =>
        /\ Len(lines) = HeaderLength + 2 * Len(NonEmpty(transcription))
        /\ \A k \in 1..Len(NonEmpty(transcription)) :
               /\ lines[HeaderLength + 2 * k - 1] =
                      format_timestamp(NonEmpty(transcription)[k].start) \o <<" ">>
                      \o Strip(NonEmpty(transcription)[k].text)
               /\ lines[HeaderLength + 2 * k] = <<>>
        /\ gpc = "done" => markdown = JoinWith(lines, NL)

C4_Witness ==
    /\ gpc = "done"
    /\ include_timestamps
    /\ transcription = <<Segment(0, 2000, Hello), Segment(3000, 3100, <<>>),
                         Segment(2000, 4000, World)>>
    /\ SubSeq(lines, HeaderLength + 1, Len(lines)) =
           << <<"[", "0", ":", "0", "0", "]", " ", "H", "e", "l", "l", "o">>, <<>>,
              <<"[", "0", ":", "0", "2", "]", " ", "w", "o", "r", "l", "d">>, <<>> >>

\* C7: with no segments generate_markdown returns, in either mode, the header
\* ending with the '## Transcript' heading and its blank line, and nothing more.
C7_EmptyTranscript ==
    (gpc = "done" /\ transcription = <<>>) =>
        /\ Len(lines) = HeaderLength
        /\ lines[HeaderLength - 1] = <<"## Transcript">>
        /\ lines[HeaderLength] = <<>>
        /\ markdown =
               <<"# Transcript: ">> \o TitleOf(video_info) \o NL \o NL
               \o <<"**Source:** ">> \o Url \o NL
               \o <<"**Duration:** ">> \o format_duration(DurationOf(video_info)) \o NL
               \o <<"**Transcribed:** ">> \o today \o NL \o NL
               \o <<"---">> \o NL \o NL
               \o <<"## Transcript">> \o NL

C7_Witness ==
    /\ gpc = "done"
    /\ transcription = <<>>
    /\ ~include_timestamps
    /\ markdown[Len(markdown) - 1] = "## Transcript"

C7_WitnessStamps ==
    /\ gpc = "done"
    /\ transcription = <<>>
    /\ include_timestamps
    /\ markdown[Len(markdown) - 1] = "## Transcript"

\* C9: at every step of the grouping loop, the closed paragraphs followed by the
\* buffer hold exactly the trimmed texts of the non-empty segments processed so
\* far, once each and in order; no closed or final paragraph is empty; after
\* the flush the paragraphs joined by spaces are all those texts joined by
\* spaces.
Processed == SubSeq(transcription, 1, gi - 1)

C9_GroupingKeepsTexts ==
    /\ gpc = "group" =>
           /\ JoinWith(paragraphs \o current_para, <<" ">>) =
                  JoinWith(TrimmedTexts(Processed), <<" ">>)
           /\ Len(current_para) <= Len(TrimmedTexts(Processed))
           /\ current_para =
                  SubSeq(TrimmedTexts(Processed),
                         Len(TrimmedTexts(Processed)) - Len(current_para) + 1,
                         Len(TrimmedTexts(Processed)))
           /\ \A p \in 1..Len(paragraphs) : paragraphs[p] # <<>>
    /\ (gpc \in {"emit", "join", "done"} /\ ~include_timestamps) =>
           /\ JoinWith(paragraphs, <<" ">>) = JoinWith(TrimmedTexts(transcription), <<" ">>)
           /\ \A p \in 1..Len(paragraphs) : paragraphs[p] # <<>>

C9_Witness ==
    /\ gpc = "group"
    /\ gi = 4
    /\ Len(paragraphs) = 1
    /\ Len(current_para) = 1
    /\ Len(TrimmedTexts(Processed)) = 2
    /\ Len(Processed) = 3

-----------------------------------------------------------------------------
(* transcribe_audio: the worker thread runs the external process while the   *)
(* main thread animates the marquee.                                        *)

\* len("TRANSCRIBING * "), line 166
MarqueeLength == 15

InitTranscribe ==
    /\ tpc = "start"
    /\ wpc = "unstarted"
    /\ proc = "none"
    /\ returncode = 0
    /\ result = <<>>
    /\ srt_file = "absent"
    /\ pos = 0
    /\ observed = {}
    /\ IdleParse
    /\ IdleFormat
    /\ IdleMarkdown
    /\ IdleMain

\* threading.Thread.is_alive(): from start() until the target has returned or
\* raised
is_alive_never(w) == FALSE

is_alive(w) == w \notin {"unstarted", "dead"}

Observation(what) == [what |-> what, proc |-> proc]

\* lines 162-163
ThreadStart ==
    /\ tpc = "start"
    /\ wpc' = "started"
    /\ tpc' = "test"
    /\ UNCHANGED <<proc, returncode, result, srt_file, pos, observed>>
    /\ UNCHANGED exceptTranscribe

\* line 160: subprocess.run starts the process
WorkerSpawn ==
    /\ wpc = "started"
    /\ proc' = "running"
    /\ wpc' = "waiting"
    /\ UNCHANGED <<tpc, returncode, result, srt_file, pos, observed>>
    /\ UNCHANGED exceptTranscribe

\* line 160: the program cannot be started, subprocess.run raises and the thread
\* ends with result still None
WorkerSpawnFails ==
    /\ wpc = "started"
    /\ proc' = "spawn_failed"
    /\ wpc' = "dead"
    /\ UNCHANGED <<tpc, returncode, result, srt_file, pos, observed>>
    /\ UNCHANGED exceptTranscribe

\* the external process writes its .srt file
ProcessWrites ==
    /\ proc = "running"
    /\ srt_file \in {"absent", "partial"}
    /\ srt_file' \in {"partial", "complete"}
    /\ UNCHANGED <<tpc, wpc, proc, returncode, result, pos, observed>>
    /\ UNCHANGED exceptTranscribe

\* the external process terminates
ProcessExits ==
    /\ proc = "running"
    /\ proc' = "exited"
    /\ returncode' \in {0, 1}
    /\ UNCHANGED <<tpc, wpc, result, srt_file, pos, observed>>
    /\ UNCHANGED exceptTranscribe

\* line 160: subprocess.run returns once the process has exited; result is bound
WorkerAssigns ==
    /\ wpc = "waiting"
    /\ proc = "exited"
    /\ result' = <<returncode>>
    /\ wpc' = "assigned"
    /\ UNCHANGED <<tpc, proc, returncode, srt_file, pos, observed>>
    /\ UNCHANGED exceptTranscribe

\* run_transcription returns
WorkerEnds ==
    /\ wpc = "assigned"
    /\ wpc' = "dead"
    /\ UNCHANGED <<tpc, proc, returncode, result, srt_file, pos, observed>>
    /\ UNCHANGED exceptTranscribe

\* line 171, thread alive: lines 172-174
MarqueeStep ==
    /\ tpc = "test"
    /\ is_alive(wpc)
    /\ pos' = (pos + 1) % MarqueeLength
    /\ tpc' = "join"
    /\ UNCHANGED <<wpc, proc, returncode, result, srt_file, observed>>
    /\ UNCHANGED exceptTranscribe

\* line 175: join(timeout=0.1) returns, the thread over or not
JoinReturns ==
    /\ tpc = "join"
    /\ tpc' = "test"
    /\ UNCHANGED <<wpc, proc, returncode, result, srt_file, pos, observed>>
    /\ UNCHANGED exceptTranscribe

\* line 171, thread not alive: the loop is left
LoopExit ==
    /\ tpc = "test"
    /\ ~is_alive(wpc)
    /\ tpc' = "outcome"
    /\ UNCHANGED <<wpc, proc, returncode, result, srt_file, pos, observed>>
    /\ UNCHANGED exceptTranscribe

\* line 177 on result None: AttributeError leaves transcribe_audio
OutcomeMissing ==
    /\ tpc = "outcome"
    /\ result = <<>>
    /\ observed' = observed \cup {Observation("outcome")}
    /\ tpc' = "raised"
    /\ UNCHANGED <<wpc, proc, returncode, result, srt_file, pos>>
    /\ UNCHANGED exceptTranscribe

\* lines 177-179
OutcomeFailure ==
    /\ tpc = "outcome"
    /\ result \notin {<<>>, <<0>>}
    /\ observed' = observed \cup {Observation("outcome")}
    /\ tpc' = "exit"
    /\ UNCHANGED <<wpc, proc, returncode, result, srt_file, pos>>
    /\ UNCHANGED exceptTranscribe

\* line 177, returncode 0
OutcomeSuccess ==
    /\ tpc = "outcome"
    /\ result = <<0>>
    /\ observed' = observed \cup {Observation("outcome")}
    /\ tpc' = "glob"
    /\ UNCHANGED <<wpc, proc, returncode, result, srt_file, pos>>
    /\ UNCHANGED exceptTranscribe

\* lines 182-188: no .srt file
GlobFindsNothing ==
    /\ tpc = "glob"
    /\ srt_file = "absent"
    /\ tpc' = "exit"
    /\ UNCHANGED <<wpc, proc, returncode, result, srt_file, pos, observed>>
    /\ UNCHANGED exceptTranscribe

\* lines 182, 190: the file is read
ReadSrt ==
    /\ tpc = "glob"
    /\ srt_file # "absent"
    /\ observed' = observed \cup {Observation("srt")}
    /\ tpc' = "parse"
    /\ UNCHANGED <<wpc, proc, returncode, result, srt_file, pos>>
    /\ UNCHANGED exceptTranscribe

\* lines 191-194
ParseAndReturn ==
    /\ tpc = "parse"
    /\ observed' = observed \cup {Observation("parse_srt")}
    /\ tpc' = "returned"
    /\ UNCHANGED <<wpc, proc, returncode, result, srt_file, pos>>
    /\ UNCHANGED exceptTranscribe

NextTranscribe ==
    \/ ThreadStart
    \/ WorkerSpawn
    \/ WorkerSpawnFails
    \/ ProcessWrites
    \/ ProcessExits
    \/ WorkerAssigns
    \/ WorkerEnds
    \/ MarqueeStep
    \/ JoinReturns
    \/ LoopExit
    \/ OutcomeMissing
    \/ OutcomeFailure
    \/ OutcomeSuccess
    \/ GlobFindsNothing
    \/ ReadSrt
    \/ ParseAndReturn

SpecTranscribe == InitTranscribe /\ [][NextTranscribe]_vars

\* C8: in every interleaving the main thread reads the process outcome, reads
\* the .srt file and calls parse_srt only after the external process has
\* terminated; the caption text is never read while the process runs.
C8_ReadsAfterTermination ==
    /\ \A o \in observed :
           /\ o.proc # "running"
           /\ o.what \in {"srt", "parse_srt"} => o.proc = "exited"
    /\ tpc \in {"outcome", "glob", "parse", "returned", "exit", "raised"} =>
           proc \in {"exited", "spawn_failed"}
    /\ tpc \in {"glob", "parse", "returned"} => (proc = "exited" /\ result = <<returncode>>)

C8_Witness ==
    /\ tpc = "returned"
    /\ pos = 3
    /\ srt_file = "complete"
    /\ Observation("srt") \in observed
    /\ Observation("parse_srt") \in observed

-----------------------------------------------------------------------------
(* main: the overwrite prompt, the rename loop and the final write          *)

MaxPaths == 4

Answers ==
    { <<"o">>, <<"O", " ">>, <<"r">>, <<" ", "R">>, <<"c">>, <<"C">>, <<"x">>, <<>> }

\* str.lower() on the letters of the answers
LowerChar(c) ==
    CASE c = "O" -> "o"
      [] c = "R" -> "r"
      [] c = "C" -> "c"
      [] OTHER -> c
Lower(t) == [i \in 1..Len(t) |-> LowerChar(t[i])]

InitMain ==
    /\ mpc = "check"
    /\ existing \in SUBSET (1..MaxPaths)
    /\ force \in BOOLEAN
    /\ choice = <<>>
    /\ n = 0
    /\ output_path = 1
    /\ probed = {}
    /\ prompted = FALSE
    /\ written = {}
    /\ IdleParse
    /\ IdleFormat
    /\ IdleMarkdown
    /\ IdleTranscribe

\* line 310 false
NoPrompt ==
    /\ mpc = "check"
    /\ ~(output_path \in existing /\ ~force)
    /\ mpc' = "pipeline"
    /\ UNCHANGED <<existing, force, choice, n, output_path, probed, prompted, written>>
    /\ UNCHANGED exceptMain

\* lines 310-315
Prompt ==
    /\ mpc = "check"
    /\ output_path \in existing /\ ~force
    /\ \E answer \in Answers : choice' = Lower(Strip(answer))
    /\ prompted' = TRUE
    /\ mpc' = "choice"
    /\ UNCHANGED <<existing, force, n, output_path, probed, written>>
    /\ UNCHANGED exceptMain

\* lines 317-319
Cancel ==
    /\ mpc = "choice"
    /\ choice = <<"c">>
    /\ mpc' = "exit"
    /\ UNCHANGED <<existing, force, choice, n, output_path, probed, prompted, written>>
    /\ UNCHANGED exceptMain

\* lines 320-324
RenameStart ==
    /\ mpc = "choice"
    /\ choice = <<"r">>
    /\ n' = 2
    /\ mpc' = "rename"
    /\ UNCHANGED <<existing, force, choice, output_path, probed, prompted, written>>
    /\ UNCHANGED exceptMain

\* lines 317, 320: neither branch is taken, whatever else was answered
NoBranch ==
    /\ mpc = "choice"
    /\ choice \notin {<<"c">>, <<"r">>}
    /\ mpc' = "pipeline"
    /\ UNCHANGED <<existing, force, choice, n, output_path, probed, prompted, written>>
    /\ UNCHANGED exceptMain

\* lines 326-327, 330: the numbered path exists
RenameTaken ==
    /\ mpc = "rename"
    /\ n \in existing
    /\ probed' = probed \cup {n}
    /\ n' = n + 1
    /\ UNCHANGED <<mpc, existing, force, choice, output_path, prompted, written>>
    /\ UNCHANGED exceptMain

\* lines 326-329, 331
RenameFree ==
    /\ mpc = "rename"
    /\ n \notin existing
    /\ output_path' = n
    /\ mpc' = "pipeline"
    /\ UNCHANGED <<existing, force, choice, n, probed, prompted, written>>
    /\ UNCHANGED exceptMain

\* lines 334-354: a step of the download or of the transcription exits
PipelineFails ==
    /\ mpc = "pipeline"
    /\ mpc' = "exit"
    /\ UNCHANGED <<existing, force, choice, n, output_path, probed, prompted, written>>
    /\ UNCHANGED exceptMain

\* lines 334-357: the document is made and written
WriteOutput ==
    /\ mpc = "pipeline"
    /\ written' = written \cup {output_path}
    /\ existing' = existing \cup {output_path}
    /\ mpc' = "done"
    /\ UNCHANGED <<force, choice, n, output_path, probed, prompted>>
    /\ UNCHANGED exceptMain

\* another program creates a file while main runs
OtherProgramCreates ==
    /\ mpc \in {"check", "choice", "rename", "pipeline"}
    /\ \E p \in 1..MaxPaths : p \notin existing /\ existing' = existing \cup {p}
    /\ UNCHANGED <<mpc, force, choice, n, output_path, probed, prompted, written>>
    /\ UNCHANGED exceptMain

NextMain ==
    \/ NoPrompt
    \/ Prompt
    \/ Cancel
    \/ RenameStart
    \/ NoBranch
    \/ RenameTaken
    \/ RenameFree
    \/ PipelineFails
    \/ WriteOutput
    \/ OtherProgramCreates

SpecMain == InitMain /\ [][NextMain]_vars

\* C10: when the output path exists and --force is not given, the write goes to
\* that path only if the answer was 'o'; 'c' writes nothing; 'r' writes to
\* '<stem> <n><ext>' with the smallest n >= 2 that did not exist when checked;
\* any other answer does not overwrite the existing file.
C10_OverwriteOnlyOnO ==
    prompted =>
        /\ 1 \in written => choice = <<"o">>
        /\ choice = <<"c">> => written = {}
        /\ (choice = <<"r">> /\ written # {}) =>
               written = {output_path} /\ output_path >= 2 /\ probed = 2..(output_path - 1)

====
